---------------------------- MODULE Spec2Model ----------------------------
(***************************************************************************)
(* A model of permutations.py: the class Perm (elements of S_n written as  *)
(* disjoint cycles), generate_group (closure under multiplication) and     *)
(* sgn.                                                                    *)
(*                                                                         *)
(* A Python str is a sequence of one-character strings, a Python list a    *)
(* sequence, a Perm object the record of its three attributes.  A Python   *)
(* int of arbitrary size (the hash) is its decimal digit sequence without  *)
(* leading zeros.                                                          *)
(***************************************************************************)
EXTENDS Integers, Sequences, FiniteSets, TLC

(***************************************************************************)
(* Bounds of the model.                                                    *)
(***************************************************************************)
\* largest element a cycle text may mention, and largest explicit maximum
MaxN == 3
\* most digits typed in the cycle texts of the two operands together
MaxDigits == 4
\* largest |exponent| given to __pow__
MaxPow == 2
\* most generators given to generate_group
MaxGens == 2

(***************************************************************************)
(* Python built-ins used by the program.                                   *)
(***************************************************************************)
\* the default value of __init__'s parameter maximum
None == -1

DigitChars == <<"0", "1", "2", "3", "4", "5", "6", "7", "8", "9">>

\* str.isnumeric() and the regular expression's \d, on one character
IsNumeric(c) == \E d \in 1..10 : DigitChars[d] = c

\* int(j) for a one-character string j
IntOfChar(c) == (CHOOSE d \in 1..10 : DigitChars[d] = c) - 1

\* str(i) for an element i (elements are read from single characters)
StrOfInt(i) == <<DigitChars[i + 1]>>

SeqMax(s) == CHOOSE m \in {s[i] : i \in 1..Len(s)} : \A i \in 1..Len(s) : s[i] <= m

SetMin(S) == CHOOSE m \in S : \A x \in S : m <= x

SetMax(S) == CHOOSE m \in S : \A x \in S : x <= m

IntMax(a, b) == IF a >= b THEN a ELSE b

Reverse(s) == [i \in 1..Len(s) |-> s[Len(s) + 1 - i]]

\* str.lstrip(chars)
LStrip(s, chars) ==
    LET keep == {i \in 1..Len(s) : s[i] \notin chars}
    IN  IF keep = {} THEN <<>> ELSE SubSeq(s, SetMin(keep), Len(s))

\* str.rstrip(chars)
RStrip(s, chars) ==
    LET keep == {i \in 1..Len(s) : s[i] \notin chars}
    IN  IF keep = {} THEN <<>> ELSE SubSeq(s, 1, SetMax(keep))

\* str.strip("()")
Strip(s) == RStrip(LStrip(s, {"(", ")"}), {"(", ")"})

\* str.split(")("): the pieces between the occurrences of the separator, which
\* cannot overlap one another
Split(s) ==
    LET seps  == {i \in 1..(Len(s) - 1) : s[i] = ")" /\ s[i + 1] = "("}
        start == {1} \cup {i + 2 : i \in seps}
        StopOf(b) == IF \E i \in seps : i >= b
                     THEN SetMin({i \in seps : i >= b}) - 1
                     ELSE Len(s)
        NthStart(k) == CHOOSE b \in start : Cardinality({c \in start : c < b}) = k - 1
    IN  [k \in 1..Cardinality(start) |-> SubSeq(s, NthStart(k), StopOf(NthStart(k)))]

RECURSIVE Join(_, _)
\* sep.join(parts)
Join(sep, parts) ==
    IF parts = <<>> THEN <<>>
    ELSE IF Len(parts) = 1 THEN parts[1]
    ELSE parts[1] \o sep \o Join(sep, Tail(parts))

RECURSIVE Concat(_)
\* "".join(parts)
Concat(parts) == IF parts = <<>> THEN <<>> ELSE Head(parts) \o Concat(Tail(parts))

RECURSIVE SumLens(_, _)
\* sum(len(i) + d for i in seqs)
SumLens(seqs, d) ==
    IF seqs = <<>> THEN 0 ELSE Len(Head(seqs)) + d + SumLens(Tail(seqs), d)

\* list.count(x)
Count(s, x) == Cardinality({i \in 1..Len(s) : s[i] = x})

\* x in list
InList(x, s) == \E i \in 1..Len(s) : s[i] = x

\* list.index(x), counted from 1
Index(s, x) == SetMin({i \in 1..Len(s) : s[i] = x})

(***************************************************************************)
(* Perm.apply                                                              *)
(***************************************************************************)
RECURSIVE FollowCycles(_, _)
\* the for loop of apply: every cycle that holds the running element moves it
FollowCycles(cycles, new) ==
    IF cycles = <<>> THEN new
    ELSE FollowCycles(Tail(cycles),
                      IF InList(new, Head(cycles))
                      THEN Head(cycles)[Index(Head(cycles), new) + 1]
                      ELSE new)

RECURSIVE OrbitLoop(_, _, _)
\* the inner while loop of apply: extend the orbit until element is in it twice
OrbitLoop(cycles, orbit, element) ==
    IF Count(orbit, element) < 2
    THEN OrbitLoop(cycles, Append(orbit, FollowCycles(cycles, orbit[Len(orbit)])), element)
    ELSE orbit

\* a mutant of FirstUnlogged: max instead of min
FirstUnloggedLargest(maximum, result) ==
    SetMax({i \in 1..maximum : ~ \E k \in 1..Len(result) : InList(i, result[k])})

\* the element a new orbit starts from
FirstUnlogged(maximum, result) ==
    SetMin({i \in 1..maximum : ~ \E k \in 1..Len(result) : InList(i, result[k])})

RECURSIVE ApplyLoop(_, _, _)
\* the outer while loop of apply
ApplyLoop(maximum, cycles, result) ==
    IF SumLens(result, -1) < maximum
    THEN LET element == FirstUnlogged(maximum, result)
         IN  ApplyLoop(maximum, cycles,
                       Append(result, OrbitLoop(cycles, <<element>>, element)))
    ELSE result

\* the return statement of apply
FormatCycles(result) ==
    <<"(">>
    \o Join(<<")", "(">>,
            [k \in 1..Len(result) |->
                Concat([j \in 1..(Len(result[k]) - 1) |-> StrOfInt(result[k][j])])])
    \o <<")">>

apply(maximum, cycles) == FormatCycles(ApplyLoop(maximum, cycles, <<>>))

(***************************************************************************)
(* Perm.__init__, __repr__, __str__                                        *)
(***************************************************************************)
\* [int(j) for j in (i * 2)]
DoubledCycle(i) == [j \in 1..(2 * Len(i)) |-> IntOfChar(i[((j - 1) % Len(i)) + 1])]

ParseDescription(description) ==
    LET pieces == Split(Strip(description))
    IN  [k \in 1..Len(pieces) |-> DoubledCycle(pieces[k])]

\* __init__ raises ValueError (max of an empty list) for these arguments
InitRaises(description, maximum) ==
    /\ maximum = None
    /\ \E k \in 1..Len(ParseDescription(description)) :
           ParseDescription(description)[k] = <<>>

Perm(description, maximum) ==
    LET desc == ParseDescription(description)
        max  == IF maximum = None
                THEN SeqMax([k \in 1..Len(desc) |-> SeqMax(desc[k])])
                ELSE maximum
    IN  [description |-> desc, max |-> max, string |-> apply(max, desc)]

repr(p) == p.string

\* sub("\(\d\)", "", s): every one-digit cycle removed (two matches cannot overlap)
SubSingletons(s) ==
    LET matches == {i \in 1..(Len(s) - 2) :
                        s[i] = "(" /\ IsNumeric(s[i + 1]) /\ s[i + 2] = ")"}
        kept    == {i \in 1..Len(s) : ~ \E m \in matches : i \in m..(m + 2)}
        NthKept(k) == CHOOSE i \in kept : Cardinality({c \in kept : c < i}) = k - 1
    IN  [k \in 1..Cardinality(kept) |-> s[NthKept(k)]]

\* a mutant of str: the identity is left as the empty string
strWithoutE(p) == SubSingletons(repr(p))

str(p) == IF SubSingletons(repr(p)) = <<>> THEN <<"e">> ELSE SubSingletons(repr(p))


(***************************************************************************)
(* Perm.__hash__, __eq__, __lt__                                           *)
(***************************************************************************)
\* int(s) for a string of decimal digits: the digits without leading zeros
IntOfDigits(s) == IF LStrip(s, {"0"}) = <<>> THEN <<"0">> ELSE LStrip(s, {"0"})

\* a > b for two integers given by their digits
IntGreater(a, b) ==
    \/ Len(a) > Len(b)
    \/ /\ Len(a) = Len(b)
       /\ \E i \in 1..Len(a) :
              /\ IntOfChar(a[i]) > IntOfChar(b[i])
              /\ \A j \in 1..(i - 1) : a[j] = b[j]

\* a mutant of hash: the parentheses dropped instead of replaced by "0"
hashDigitsOnly(p) ==
    LET at == {q \in 1..Len(p.string) : IsNumeric(p.string[q])}
        Nth(k) == CHOOSE q \in at : Cardinality({c \in at : c < q}) = k - 1
    IN  IntOfDigits([k \in 1..Cardinality(at) |-> p.string[Nth(k)]])

hash(p) ==
    IntOfDigits([i \in 1..Len(p.string) |->
                    IF IsNumeric(p.string[i]) THEN p.string[i] ELSE "0"])

\* isinstance(v, Perm)
IsPerm(v) == DOMAIN v = {"description", "max", "string"}

eq(self, value) == IsPerm(value) /\ hash(self) = hash(value)

\* the default __ne__ of Python 3 inverts __eq__
ne(self, value) == ~ eq(self, value)

lt(self, other) == IntGreater(hash(self), hash(other))

(***************************************************************************)
(* Perm.__mul__, __pow__, inverse, order                                   *)
(***************************************************************************)
mul(self, other) ==
    Perm(apply(IntMax(self.max, other.max),
               Reverse(other.description) \o Reverse(self.description)),
         None)

\* Perm("", self.max)
Identity(maximum) == Perm(<<>>, maximum)

RECURSIVE InverseWalk(_, _)
\* the while loop of inverse; walk holds every value x took, the last one current
InverseWalk(self, walk) ==
    LET new == mul(walk[Len(walk)], self)
    IN  IF ne(new, Identity(self.max))
        THEN InverseWalk(self, Append(walk, new))
        ELSE walk

\* a mutant of inverse: new is returned instead of x
inverseReturnsNew(self) ==
    mul(InverseWalk(self, <<self>>)[Len(InverseWalk(self, <<self>>))], self)

inverse(self) == InverseWalk(self, <<self>>)[Len(InverseWalk(self, <<self>>))]

RECURSIVE OrderLoop(_, _, _)
\* the while loop of order
OrderLoop(self, x, n) ==
    LET new == mul(x, self)
    IN  IF ne(new, Identity(self.max))
        THEN OrderLoop(self, new, n + 1)
        ELSE n

order(self) == OrderLoop(self, self, 1) + 1

\* what Python raises when a Perm object is called: Perm defines no __call__
TypeError == [raised |-> "TypeError"]

\* p(): calling the value of the property inverse
CallPerm(p) == TypeError

RECURSIVE pow(_, _)
pow(self, power) ==
    IF power < 0 THEN CallPerm(inverse(pow(self, -power)))
    ELSE IF power = 0 THEN Identity(self.max)
    ELSE IF power = 1 THEN self
    ELSE mul(pow(self, power - 1), self)

(***************************************************************************)
(* generate_group and sgn                                                  *)
(***************************************************************************)
\* p in list, which compares with __eq__
Contains(list, p) == \E i \in 1..Len(list) : eq(list[i], p)

\* a mutant of ForBody: the product is not looked up in group
ForBodyKnownAgain(group, new, sigma, tau) ==
    LET prod == mul(sigma, tau)
    IN  IF ~ Contains(new, prod) THEN Append(new, prod) ELSE new

\* the body of the for loop: new after the pair (sigma, tau)
ForBody(group, new, sigma, tau) ==
    LET prod == mul(sigma, tau)
    IN  IF ~ Contains(group, prod) /\ ~ Contains(new, prod)
        THEN Append(new, prod)
        ELSE new

\* sorted(list): stable and ascending by __lt__, so list[i] comes after every
\* element that is less than it and after every earlier element not greater
sorted(list) ==
    LET Place(i) == 1 + Cardinality({j \in 1..Len(list) :
                            \/ lt(list[j], list[i])
                            \/ j < i /\ ~ lt(list[i], list[j])})
    IN  [k \in 1..Len(list) |-> list[CHOOSE i \in 1..Len(list) : Place(i) = k]]

sgn(sigma) ==
    LET cycles == Split(Strip(str(sigma)))
    IN  IF SumLens(cycles, 1) % 2 = 0 THEN 1 ELSE -1

(***************************************************************************)
(* The arguments a caller gives the constructor: a cycle text and maximum.  *)
(***************************************************************************)
\* a cycle as typed: one to MaxN different digits of 1..MaxN
TypedCycles ==
    UNION {{c \in [1..k -> 1..MaxN] : \A i, j \in 1..k : c[i] = c[j] => i = j} :
           k \in 1..MaxN}

RECURSIVE CycleLists(_)
\* the lists of typed cycles that hold at most d digits together
CycleLists(d) ==
    {<<>>} \cup
    UNION {{<<c>> \o rest : rest \in CycleLists(d - Len(c))} :
           c \in {t \in TypedCycles : Len(t) <= d}}

\* the number of digits typed in a list of cycles
DigitsOf(cycles) == SumLens(cycles, 0)

\* the text typed for a list of cycles: "" for none, else "(..)(..)"
TextOf(cycles) ==
    IF cycles = <<>> THEN <<>>
    ELSE <<"(">>
         \o Join(<<")", "(">>,
                 [k \in 1..Len(cycles) |->
                     Concat([j \in 1..Len(cycles[k]) |-> StrOfInt(cycles[k][j])])])
         \o <<")">>

LargestTyped(cycles) == SetMax({0} \cup UNION {{c[i] : i \in 1..Len(c)} : c \in {cycles[k] : k \in 1..Len(cycles)}})

\* the values of maximum a text is accepted with: the default unless __init__
\* raises, and the explicit ones that cover the typed elements
MaximaFor(cycles) ==
    (IF InitRaises(TextOf(cycles), None) THEN {} ELSE {None})
    \cup {n \in 1..MaxN : n >= LargestTyped(cycles)}

\* the constructor calls with at most d typed digits
Calls(d) ==
    UNION {{[cycles |-> cs, maximum |-> n] : n \in MaximaFor(cs)} : cs \in CycleLists(d)}

\* Perm(description, maximum) for a call
Construct(call) == Perm(TextOf(call.cycles), call.maximum)

\* marks an operand that is the result of an earlier operation
Result == [cycles |-> <<>>, maximum |-> None]

(***************************************************************************)
(* State: two operands, the calls that made them, the last operation and    *)
(* its result; and the locals of generate_group.                           *)
(***************************************************************************)
VARIABLES sigma, tau, typed, op, out,
          elements, group, size, new, i, j, pc, result

avars == <<sigma, tau, typed, op, out>>
gvars == <<elements, group, size, new, i, j, pc, result>>
vars  == <<sigma, tau, typed, op, out, elements, group, size, new, i, j, pc, result>>

\* generate_group is not running
GroupIdle ==
    /\ elements = <<>> /\ group = <<>> /\ size = 0 /\ new = <<>>
    /\ i = 0 /\ j = 0 /\ pc = "idle" /\ result = <<>>

\* two operands made by the calls a and b
Operands(a, b) ==
    /\ typed = <<a, b>>
    /\ sigma = Construct(a)
    /\ tau = Construct(b)
    /\ op = [name |-> "__init__"]
    /\ out = Construct(b)

\* the operands are bound and the last result, if any, has been taken
AtCall == op.name \in {"__init__", "rebind"}

\* sigma * tau
Multiply ==
    /\ AtCall
    /\ op' = [name |-> "__mul__"]
    /\ out' = mul(sigma, tau)
    /\ UNCHANGED <<sigma, tau, typed>>
    /\ UNCHANGED gvars

\* sigma ** power
Power(power) ==
    /\ AtCall
    /\ op' = [name |-> "__pow__", power |-> power]
    /\ out' = pow(sigma, power)
    /\ UNCHANGED <<sigma, tau, typed>>
    /\ UNCHANGED gvars

\* sigma.inverse
Inverse ==
    /\ AtCall
    /\ op' = [name |-> "inverse"]
    /\ out' = inverse(sigma)
    /\ UNCHANGED <<sigma, tau, typed>>
    /\ UNCHANGED gvars

\* sigma.order
Order ==
    /\ AtCall
    /\ op' = [name |-> "order"]
    /\ out' = order(sigma)
    /\ UNCHANGED <<sigma, tau, typed>>
    /\ UNCHANGED gvars

\* sigma == tau
Equals ==
    /\ AtCall
    /\ op' = [name |-> "__eq__"]
    /\ out' = eq(sigma, tau)
    /\ UNCHANGED <<sigma, tau, typed>>
    /\ UNCHANGED gvars

\* sgn(sigma)
Sgn ==
    /\ AtCall
    /\ op' = [name |-> "sgn"]
    /\ out' = sgn(sigma)
    /\ UNCHANGED <<sigma, tau, typed>>
    /\ UNCHANGED gvars

\* x = new: the result of a multiplication, power or inverse becomes the left
\* operand of what follows
Rebind ==
    /\ op.name \in {"__mul__", "__pow__", "inverse"}
    /\ IsPerm(out)
    /\ sigma' = out
    /\ typed' = <<Result, typed[2]>>
    /\ op' = [name |-> "rebind"]
    /\ UNCHANGED <<tau, out>>
    /\ UNCHANGED gvars

(***************************************************************************)
(* Two operands: the calls of Init hold at most MaxDigits digits together.  *)
(***************************************************************************)
Init ==
    /\ \E a \in Calls(MaxDigits) :
         \E b \in Calls(MaxDigits - DigitsOf(a.cycles)) : Operands(a, b)
    /\ GroupIdle

Next ==
    \/ Multiply
    \/ Equals
    \/ Rebind

Spec == Init /\ [][Next]_vars

(***************************************************************************)
(* One element: sigma starts as tau, the element typed, and walks through   *)
(* its products with tau, its powers and inverses.                         *)
(***************************************************************************)
ElementInit ==
    /\ \E a \in Calls(MaxDigits) : Operands(a, a)
    /\ GroupIdle

ElementNext ==
    \/ Multiply
    \/ \E power \in (-MaxPow)..MaxPow : Power(power)
    \/ Inverse
    \/ Order
    \/ Sgn
    \/ Rebind

ElementSpec == ElementInit /\ [][ElementNext]_vars

(***************************************************************************)
(* generate_group, one step of its loops at a time.                        *)
(***************************************************************************)
\* the generators of the demonstration: Perm("(1234)"), Perm("(123)(4)")
DemoGenerators ==
    << Perm(<<"(", "1", "2", "3", "4", ")">>, None),
       Perm(<<"(", "1", "2", "3", ")", "(", "4", ")">>, None) >>

RECURSIVE CallLists(_, _, _)
\* the lists of k calls with maximum n that hold at most d digits together
CallLists(k, d, n) ==
    IF k = 0 THEN {<<>>}
    ELSE UNION {{<<c>> \o rest : rest \in CallLists(k - 1, d - DigitsOf(c.cycles), n)} :
                c \in {c \in Calls(d) : c.maximum = n}}

\* the argument lists of generate_group: one to MaxGens generators of one
\* ground size, and those of the demonstration
GeneratorLists ==
    {DemoGenerators}
    \cup UNION {UNION {{[x \in 1..k |-> Construct(cs[x])] : cs \in CallLists(k, MaxDigits, n)} :
                       k \in 1..MaxGens} :
                n \in 1..MaxN}

\* no operand is in use
OperandsIdle ==
    Operands([cycles |-> <<>>, maximum |-> 1], [cycles |-> <<>>, maximum |-> 1])

GroupInit ==
    /\ OperandsIdle
    /\ elements \in GeneratorLists
    /\ group = elements
    /\ size = 0
    /\ new = <<>>
    /\ i = 0
    /\ j = 0
    /\ pc = "while"
    /\ result = <<>>

\* while size != len(group): enter a pass, or return sorted(group)
While ==
    /\ pc = "while"
    /\ IF size # Len(group)
       THEN /\ size' = Len(group)
            /\ new' = <<>>
            /\ i' = 1
            /\ j' = 1
            /\ pc' = "for"
            /\ UNCHANGED result
       ELSE /\ pc' = "done"
            /\ result' = sorted(group)
            /\ UNCHANGED <<size, new, i, j>>
    /\ UNCHANGED <<elements, group>>
    /\ UNCHANGED avars

\* one pair (group[i], group[j]) of product(group, group)
For ==
    /\ pc = "for"
    /\ i <= Len(group)
    /\ new' = ForBody(group, new, group[i], group[j])
    /\ i' = IF j < Len(group) THEN i ELSE i + 1
    /\ j' = IF j < Len(group) THEN j + 1 ELSE 1
    /\ UNCHANGED <<elements, group, size, pc, result>>
    /\ UNCHANGED avars

\* group = group + new, after the last pair
EndFor ==
    /\ pc = "for"
    /\ i > Len(group)
    /\ group' = group \o new
    /\ pc' = "while"
    /\ UNCHANGED <<elements, size, new, i, j, result>>
    /\ UNCHANGED avars

GroupNext ==
    \/ While
    \/ For
    \/ EndFor

GroupSpec == GroupInit /\ [][GroupNext]_vars

(***************************************************************************)
(* Permutations as mappings, for stating the properties.                   *)
(***************************************************************************)
RECURSIVE Factorial(_)
Factorial(n) == IF n <= 1 THEN 1 ELSE n * Factorial(n - 1)

IsBijection(f, n) ==
    /\ DOMAIN f = 1..n
    /\ \A x \in 1..n : f[x] \in 1..n
    /\ \A x, y \in 1..n : f[x] = f[y] => x = y

\* f, fixing the elements of 1..n beyond its domain
Extend(f, n) == [x \in 1..n |-> IF x \in DOMAIN f THEN f[x] ELSE x]

\* first g, then f
Compose(f, g) == [x \in DOMAIN g |-> f[g[x]]]

\* cycle notation read as a mapping of 1..n: a digit goes to the digit that
\* follows it, the last digit of a cycle to the first, an absent one to itself
ReadCycles(text, n) ==
    [x \in 1..n |->
        IF ~ \E q \in 1..Len(text) : text[q] = DigitChars[x + 1] THEN x
        ELSE LET q == CHOOSE q \in 1..Len(text) : text[q] = DigitChars[x + 1]
                 open == SetMax({b \in 1..q : text[b] = "("})
             IN  IF text[q + 1] = ")"
                 THEN IntOfChar(text[open + 1])
                 ELSE IntOfChar(text[q + 1])]

\* the mapping a permutation's full text shows
Shown(p) == ReadCycles(p.string, p.max)

RECURSIVE CycleFrom(_, _, _)
\* the cycle of f through m, written from m
CycleFrom(f, m, cur) ==
    IF f[cur] = m THEN <<cur>> ELSE <<cur>> \o CycleFrom(f, m, f[cur])

\* the canonical decomposition of a bijection f of 1..n: every element in one
\* cycle, each cycle from its smallest element, cycles by smallest element
CanonCycles(f, n) ==
    LET leaders == {m \in 1..n :
                       \A k \in 1..Len(CycleFrom(f, m, m)) : m <= CycleFrom(f, m, m)[k]}
        Nth(k) == CHOOSE m \in leaders : Cardinality({l \in leaders : l < m}) = k - 1
    IN  [k \in 1..Cardinality(leaders) |-> CycleFrom(f, Nth(k), Nth(k))]

RECURSIVE ShowCycles(_)
ShowCycles(cycles) ==
    IF cycles = <<>> THEN <<>>
    ELSE <<"(">> \o [k \in 1..Len(Head(cycles)) |-> DigitChars[Head(cycles)[k] + 1]]
         \o <<")">> \o ShowCycles(Tail(cycles))

CanonText(f, n) == ShowCycles(CanonCycles(f, n))

\* the full text of p is the canonical decomposition of a permutation of 1..p.max
IsCanonical(p) ==
    /\ p.max >= 1
    /\ \A q \in 1..Len(p.string) :
           IsNumeric(p.string[q]) => IntOfChar(p.string[q]) \in 1..p.max
    /\ \A x \in 1..p.max :
           Cardinality({q \in 1..Len(p.string) : p.string[q] = DigitChars[x + 1]}) = 1
    /\ IsBijection(Shown(p), p.max)
    /\ p.string = CanonText(Shown(p), p.max)

\* no digit is typed twice
PairwiseDisjoint(cycles) == DigitsOf(cycles) = Cardinality(UNION {{c[k] : k \in 1..Len(c)} : c \in {cycles[k] : k \in 1..Len(cycles)}})

\* the mapping of 1..n that typed, pairwise disjoint cycles describe
Described(cycles, n) ==
    [x \in 1..n |->
        IF \E k \in 1..Len(cycles) : InList(x, cycles[k])
        THEN LET c == cycles[CHOOSE k \in 1..Len(cycles) : InList(x, cycles[k])]
             IN  c[(Index(c, x) % Len(c)) + 1]
        ELSE x]

\* the ground size a call asks for
GroundSize(call) ==
    IF call.maximum = None THEN LargestTyped(call.cycles) ELSE call.maximum

RECURSIVE Generated(_)
\* the closure of a set of mappings of one domain under composition
Generated(S) ==
    LET T == S \cup {Compose(f, g) : f \in S, g \in S}
    IN  IF T = S THEN S ELSE Generated(T)

\* the result of the last operation is a permutation
OutIsPerm ==
    \/ op.name \in {"__init__", "__mul__", "inverse", "rebind"}
    \/ op.name = "__pow__" /\ op.power >= 0

(***************************************************************************)
(* The claims.                                                             *)
(***************************************************************************)
\* C1: multiply(sigma, tau) has ground size max(sigma.max, tau.max) and its full
\* text is the canonical text of "first tau, then sigma", sigma and tau being
\* the mappings their own full texts show, extended by fixed points.
C1_MultiplyComposesShownMappings ==
    op.name = "__mul__" =>
        LET n == IntMax(sigma.max, tau.max)
        IN  /\ out.max = n
            /\ out.string = CanonText(Compose(Extend(Shown(sigma), n),
                                              Extend(Shown(tau), n)), n)

\* C2: the full text of every permutation (typed, or a result of multiply,
\* power or inverse) is a canonical decomposition, and that of a permutation
\* typed with pairwise disjoint cycles is the canonical decomposition of the
\* mapping typed; so full text is a function of mapping and ground size.
C2_FullTextIsCanonical ==
    /\ IsCanonical(sigma)
    /\ IsCanonical(tau)
    /\ OutIsPerm => IsCanonical(out)
    /\ (typed[1] # Result /\ PairwiseDisjoint(typed[1].cycles)) =>
           /\ sigma.max = GroundSize(typed[1])
           /\ sigma.string = CanonText(Described(typed[1].cycles, sigma.max), sigma.max)
    /\ (typed[2] # Result /\ PairwiseDisjoint(typed[2].cycles)) =>
           /\ tau.max = GroundSize(typed[2])
           /\ tau.string = CanonText(Described(typed[2].cycles, tau.max), tau.max)

\* C2 witness: a typed permutation whose text is not canonical as typed (cycles
\* out of order, not from their smallest element, a fixed point left out) was
\* squared, and the square is not the identity.
C2_Witness ==
    /\ op.name = "__pow__" /\ op.power = 2
    /\ typed[1] # Result
    /\ PairwiseDisjoint(typed[1].cycles)
    /\ TextOf(typed[1].cycles) # sigma.string
    /\ Len(typed[1].cycles) = 1
    /\ sigma.max = 3
    /\ typed[1].cycles[1][1] = 3
    /\ out.string # Identity(3).string

\* C3: generate_group returns the subgroup the generators generate, each of its
\* elements once and nothing else; the generators of the demonstration give 24
\* elements, 12 of them of sign +1.
C3_ReturnsGeneratedSubgroupOnce ==
    pc = "done" =>
        /\ \A a, b \in 1..Len(result) : result[a].string = result[b].string => a = b
        /\ {Shown(result[k]) : k \in 1..Len(result)}
             = Generated({Shown(elements[k]) : k \in 1..Len(elements)})
        /\ elements = DemoGenerators =>
               /\ Len(result) = 24
               /\ Cardinality({k \in 1..Len(result) : sgn(result[k]) = 1}) = 12

\* C4: the identity of x's ground size is neutral on both sides: the product
\* equals x and has x's full text.
C4_IdentityLaws ==
    op.name = "__mul__" =>
        /\ (typed[1] # Result /\ typed[1].cycles = <<>> /\ typed[1].maximum = tau.max) =>
               (eq(out, tau) /\ out.string = tau.string)
        /\ (typed[2] # Result /\ typed[2].cycles = <<>> /\ typed[2].maximum = sigma.max) =>
               (eq(out, sigma) /\ out.string = sigma.string)

\* C5: the inverse walk ends within n! values of x, and the product of x and
\* the permutation returned equals the identity of x's ground size.
C5_InverseLaw ==
    op.name = "inverse" =>
        /\ Len(InverseWalk(sigma, <<sigma>>)) <= Factorial(sigma.max)
        /\ IsPerm(out)
        /\ eq(mul(sigma, out), Identity(sigma.max))
        /\ mul(sigma, out).string = Identity(sigma.max).string

\* C5 witness: the inverse of an element of order 3 was taken, after a walk of
\* two values.
C5_Witness ==
    /\ op.name = "inverse"
    /\ Len(InverseWalk(sigma, <<sigma>>)) = 2
    /\ out.string # sigma.string
    /\ out.string # Identity(sigma.max).string

\* the identity of x's ground size is x multiplied by itself k times
PowerIsIdentity(x, k) == eq(pow(x, k), Identity(x.max))

\* C6: order(x) is the smallest k >= 1 for which x^k is the identity.
C6_OrderIsLeastPower ==
    op.name = "order" =>
        /\ out >= 1
        /\ PowerIsIdentity(sigma, out)
        /\ \A k \in 1..(out - 1) : ~ PowerIsIdentity(sigma, k)

\* C7: power(x, -k) returns a permutation equal to inverse(power(x, k)).
C7_NegativePowerIsInverse ==
    (op.name = "__pow__" /\ op.power < 0) =>
        /\ IsPerm(out)
        /\ eq(out, inverse(pow(sigma, -op.power)))

\* C8: for operands of equal ground size, sgn is +1 or -1 on both and on their
\* product, and the sign of the product is the product of the signs.
C8_SignHomomorphism ==
    (op.name = "__mul__" /\ sigma.max = tau.max) =>
        /\ sgn(sigma) \in {1, -1}
        /\ sgn(tau) \in {1, -1}
        /\ sgn(out) \in {1, -1}
        /\ sgn(out) = sgn(sigma) * sgn(tau)

\* C8 witness: two odd permutations were multiplied to the identity, whose
\* reduced text is e.
C8_Witness ==
    /\ op.name = "__mul__"
    /\ sigma.max = tau.max
    /\ sgn(sigma) = -1
    /\ sgn(tau) = -1
    /\ str(out) = <<"e">>

\* C9: the hash separates any two full texts, so a == b exactly when a and b
\* have the same full text, and for equal ground sizes exactly when they show
\* the same mapping.
C9_HashInjective ==
    op.name = "__eq__" =>
        /\ (hash(sigma) = hash(tau)) <=> (sigma.string = tau.string)
        /\ out <=> (sigma.string = tau.string)
        /\ sigma.max = tau.max => (out <=> (Shown(sigma) = Shown(tau)))

\* the digits of a full text, without the parentheses
DigitsOfText(text) ==
    LET at == {q \in 1..Len(text) : IsNumeric(text[q])}
        Nth(k) == CHOOSE q \in at : Cardinality({c \in at : c < q}) = k - 1
    IN  [k \in 1..Cardinality(at) |-> text[Nth(k)]]

\* C9 witness: two permutations with the same digits in the same order, in
\* different cycles, were compared and found different.
C9_Witness ==
    /\ op.name = "__eq__"
    /\ out = FALSE
    /\ DigitsOfText(sigma.string) = DigitsOfText(tau.string)
    /\ sigma.max = tau.max

\* a pass has added an element to the known list since it was last measured
PassAdded ==
    /\ Len(group) > size
    /\ \A k \in (size + 1)..Len(group) : ~ Contains(SubSeq(group, 1, size), group[k])

\* every product of two known elements is known
ClosedUnderProducts ==
    \A a, b \in 1..Len(group) : Contains(group, mul(group[a], group[b]))

\* the most elements the known list can hold: the generators and the n!
\* permutations of their ground size
MostKnown == Len(elements) + Factorial(elements[1].max)

\* the pairs of product(group, group) the for loop has still to visit
PairsLeft ==
    IF i > Len(group) THEN 0
    ELSE Len(group) * Len(group) - ((i - 1) * Len(group) + (j - 1))

\* a variant of the loops: the elements still unknown first, then the steps
\* left in the pass
Rank ==
    (MostKnown - Len(group)) * (MostKnown * MostKnown + 4)
    + (IF pc = "done" THEN 0
       ELSE IF pc = "for" THEN 2 + PairsLeft
       ELSE IF size = Len(group) THEN 1
       ELSE Len(group) * Len(group) + 3)

\* C10: the closure loop ends (every step lowers a variant that is never
\* negative, and a step is possible until the function has returned); the
\* known list never loses an element, a pass after which the loop goes on has
\* added an element not known before, the list never holds more than the
\* generators and n! more, and the loop exits after the first pass that finds
\* no new product, and after no other.
C10_ClosureLoopTerminates ==
    /\ [][/\ Rank' < Rank
          /\ SubSeq(group', 1, Len(group)) = group
          /\ (pc = "while" /\ pc' = "for" /\ size # 0) => (PassAdded /\ new # <<>>)
          /\ (pc = "while" /\ pc' = "done") => (new = <<>> /\ ClosedUnderProducts)
          /\ (pc = "for" /\ pc' = "while" /\ new = <<>>) => ClosedUnderProducts
          /\ (pc = "for" /\ pc' = "while" /\ new # <<>>) => ~ ClosedUnderProducts
         ]_vars
    /\ [](/\ Rank >= 0
          /\ pc \in {"while", "for", "done"}
          /\ pc = "for" => (i \in 1..(Len(group) + 1) /\ j \in 1..Len(group))
          /\ Len(group) <= MostKnown)

\* C10 witness: the loop has ended after more than two passes on the
\* generators of the demonstration, with the 24 elements of S_4 known.
C10_Witness ==
    /\ pc = "done"
    /\ elements = DemoGenerators
    /\ Len(group) = 24
    /\ Len(result) = 24

=============================================================================
